---- MODULE Spec2Model ----
(***************************************************************************)
(* Model of the fyne settings store (src/app/settings.go): the fields of   *)
(* `settings`, its RWMutex, the change-listener registry and the channels  *)
(* behind it, and every method of the store as a sequence of steps taken   *)
(* by caller goroutines.  Each step is named after the source line it      *)
(* executes.                                                               *)
(***************************************************************************)
EXTENDS Integers, FiniteSets, Sequences, TLC

\* ------------------------------------------------------------------ bounds
MaxOps == 2        \* calls two goroutines make between them in one behaviour
MaxFanouts == 3    \* calls one goroutine makes, one after the other, with subscribers
MaxLive == 2       \* the same, where progress is checked
MaxCap == 1        \* largest buffer capacity of a subscriber channel

\* ------------------------------------------------------------------ values
Threads == {"g1", "g2"}            \* caller goroutines
Chans == {"c1", "c2"}              \* subscriber channels (chan fyne.Settings)
ChanCap == [c \in Chans |-> IF c = "c1" THEN 0 ELSE MaxCap]   \* c1 is unbuffered
None == "none"

\* fyne.Theme values: nil (before any theme is applied), theme.DefaultTheme(),
\* the theme parsed from theme.json, and two themes an application may pass in.
NilTheme == "nil"
DefaultTheme == "default"
JSONTheme == "json"
UserThemes == {"T1", "T2"}
Themes == {NilTheme, DefaultTheme, JSONTheme} \cup UserThemes

VariantLight == "VariantLight"
VariantDark == "VariantDark"
Variants == {VariantDark, VariantLight}

\* float32 scale values are modelled in tenths: ScaleOne is the 1.0 that Scale()
\* returns for the legacy -1 ("auto"), which is -10 here.
ScaleOne == 10

\* SettingsSchema records the persistence collaborator may deliver.  CloudName and
\* CloudConfig have no behaviour in the store and are left out.
Schemas ==
    { [ThemeName |-> "",      Scale |-> 0,        PrimaryColor |-> "",     DisableAnimations |-> FALSE],
      [ThemeName |-> "light", Scale |-> -10,      PrimaryColor |-> "blue", DisableAnimations |-> FALSE],
      [ThemeName |-> "dark",  Scale |-> 15,       PrimaryColor |-> "red",  DisableAnimations |-> TRUE],
      [ThemeName |-> "other", Scale |-> ScaleOne, PrimaryColor |-> "blue", DisableAnimations |-> TRUE] }

ColorNames == {"blue", "red"}
BuildModes == {"BuildStandard", "BuildDebug", "BuildRelease"}   \* build.Mode, by build tag
EnvValues == {"", "dark", "other"}                      \* os.Getenv("FYNE_THEME")
ThemeDocs == {"absent", "ioerror", "nilcontent", "malformed", "valid"}  \* theme.json

VARIABLES
    theme,            \* settings.theme
    themeSpecified,   \* settings.themeSpecified
    variant,          \* settings.variant
    schema,           \* settings.schema
    propertyLock,     \* settings.propertyLock: [w: holder of Lock or None, r: holders of RLock]
    changeListeners,  \* settings.changeListeners: the keys of the sync.Map
    noAnimations,     \* package variable noAnimations
    capacity,         \* capacity of each subscriber channel
    buf,              \* number of messages in each channel's buffer
    ready,            \* the subscriber of the channel is blocked in a receive
    pending,          \* sender goroutines `go func() { l <- s }()` not yet done, per channel
    pc,               \* position of each caller goroutine
    frame,            \* locals of the call each caller goroutine is in
    ops,              \* calls the goroutines may still start
    visits,           \* history: send attempts apply() made on each channel
    recv,             \* history: messages each subscriber has received
    pin               \* history: theme of the last SetTheme not followed by SetTheme/OverrideTheme

vars == <<theme, themeSpecified, variant, schema, propertyLock, changeListeners,
          noAnimations, capacity, buf, ready, pending, pc, frame, ops, visits, recv, pin>>

store == <<theme, themeSpecified, variant, schema>>
chans == <<capacity, buf, ready, pending, visits, recv>>

\* ------------------------------------------------------------------ frames
Mutators == {"SetTheme", "OverrideTheme", "setupTheme"}

Snapshot == [theme |-> theme, themeSpecified |-> themeSpecified, variant |-> variant,
             schema |-> schema, noAnimations |-> noAnimations,
             changeListeners |-> changeListeners, visits |-> visits]

NoFrame ==
    [op |-> None, theme |-> None, variant |-> None, name |-> None, color |-> None,
     doc |-> None, visited |-> {}, must |-> {}, ret |-> None,
     pre |-> None, solo |-> FALSE, fanouts |-> 0, applies |-> 0, pinned |-> None,
     partial |-> FALSE, old |-> None, raw |-> None, env |-> None, schemaName |-> None, dflt |-> None,
     loaded |-> {}, undo |-> {}, notified |-> FALSE]

NewFrame(t, op) ==
    [NoFrame EXCEPT !.op = op, !.pre = Snapshot,
                    !.solo = \A u \in Threads \ {t} : pc[u] = "idle",
                    !.pinned = IF op \in {"SetTheme", "OverrideTheme"} THEN None ELSE pin,
                    !.undo = IF op = "OverrideTheme" THEN frame[t].undo ELSE {},
                    !.notified = op = "Theme" /\ \E c \in Chans : recv[c] > 0]

\* Thread t starts a call of method op at its first line; every call in flight
\* on another goroutine is no longer alone.
Begin(t, op, first, f) ==
    /\ pc[t] = "idle"
    /\ t = "g1" \/ pc["g1"] # "idle"     \* goroutines are interchangeable: g1 goes first
    /\ ops > 0
    /\ ops' = ops - 1
    /\ pc' = [pc EXCEPT ![t] = first]
    /\ frame' = [u \in Threads |->
                    IF u = t THEN f
                    ELSE IF pc[u] = "idle" THEN frame[u]
                    ELSE IF op \in {"SetTheme", "OverrideTheme"}
                         THEN [frame[u] EXCEPT !.solo = FALSE, !.pinned = None]
                         ELSE [frame[u] EXCEPT !.solo = FALSE]]
    /\ pin' = IF op \in {"SetTheme", "OverrideTheme"} THEN None ELSE pin

Goto(t, next) == pc' = [pc EXCEPT ![t] = next]

\* ------------------------------------------------------------------ RWMutex
CanLock == propertyLock.w = None /\ propertyLock.r = {}
CanRLock == propertyLock.w = None
Lock(t) == propertyLock' = [propertyLock EXCEPT !.w = t]
Unlock(t) == propertyLock' = [propertyLock EXCEPT !.w = None]
RLock(t) == propertyLock' = [propertyLock EXCEPT !.r = @ \cup {t}]
RUnlock(t) == propertyLock' = [propertyLock EXCEPT !.r = @ \ {t}]

\* The store as loadSettings() returns it (lines 178-183), no listener registered,
\* with n calls to come.
Fresh(n) ==
    /\ theme = NilTheme
    /\ themeSpecified = FALSE
    /\ variant = VariantDark          \* zero value of fyne.ThemeVariant
    /\ schema \in Schemas
    /\ propertyLock = [w |-> None, r |-> {}]
    /\ changeListeners = {}
    /\ noAnimations \in BOOLEAN
    /\ capacity = ChanCap
    /\ buf = [c \in Chans |-> 0]
    /\ ready = [c \in Chans |-> FALSE]
    /\ pending = [c \in Chans |-> 0]
    /\ pc = [t \in Threads |-> "idle"]
    /\ frame = [t \in Threads |-> NoFrame]
    /\ ops = n
    /\ visits = [c \in Chans |-> 0]
    /\ recv = [c \in Chans |-> 0]
    /\ pin = None

Init == Fresh(MaxOps)

\* ------------------------------------------------------------------ pure parts
\* Scale() with the comparison `<= 0.0`.
ScaleResultLe(v) == IF v <= 0 THEN ScaleOne ELSE v

\* Scale(), lines 110-113: the value returned for a stored schema.Scale.
ScaleResult(v) == IF v < 0 THEN ScaleOne ELSE v

\* ShowAnimations() looking at the schema alone.
ShowAnimationsResultSchemaOnly(disable, noAnim) == ~disable

\* ShowAnimations(), line 85.
ShowAnimationsResult(disable, noAnim) == ~disable /\ ~noAnim

\* setupTheme(), lines 158-161: the candidate theme name.
CandidateName(schemaName, env) == IF env # "" THEN env ELSE schemaName

\* setupTheme() with the case "dark" left out of the switch.
VariantForNameLightOnly(name, dflt) ==
    CASE name = "light" -> VariantLight
      [] OTHER -> dflt

\* setupTheme(), lines 163 and 168-173: the variant for a candidate name.
VariantForName(name, dflt) ==
    CASE name = "light" -> VariantLight
      [] name = "dark" -> VariantDark
      [] OTHER -> dflt

\* loadSystemTheme() returning the failed parse's nil theme.
loadSystemThemeNilOnError(doc) ==
    CASE doc = "absent" -> DefaultTheme
      [] doc = "ioerror" -> DefaultTheme
      [] doc = "nilcontent" -> DefaultTheme
      [] doc = "malformed" -> NilTheme
      [] doc = "valid" -> JSONTheme

\* loadSystemTheme(), lines 138-155, by the state of the theme document.
loadSystemTheme(doc) ==
    CASE doc = "absent" -> DefaultTheme        \* err != nil, os.IsNotExist(err)
      [] doc = "ioerror" -> DefaultTheme       \* err != nil, logged
      [] doc = "nilcontent" -> DefaultTheme    \* data == nil or data.Content() == nil
      [] doc = "malformed" -> DefaultTheme     \* theme.FromJSONReader fails, logged
      [] doc = "valid" -> JSONTheme

\* setupTheme() with the test of themeSpecified left out.
EffectiveThemeAlwaysLoaded(specified, current, doc) ==
    IF doc \in ThemeDocs THEN loadSystemTheme(doc) ELSE DefaultTheme

\* setupTheme(), lines 164-167: the theme it applies.
EffectiveTheme(specified, current, doc) ==
    IF ~specified THEN loadSystemTheme(doc) ELSE current

\* apply() with a plain send `listener <- s` in place of the select.
SelectWithoutDefault == FALSE

\* apply(), lines 123-128: the select has a default case, so the send never waits.
SelectHasDefault == TRUE

\* apply() with an empty default case: the notification is dropped.
AfterDefaultDropped(p) == p

\* apply(), line 127: sender goroutines on a channel after the default case ran.
AfterDefault(p) == p + 1

\* A send on channel c can proceed at once: a receiver is waiting or the buffer has room.
CanSend(c) == ready[c] \/ buf[c] < capacity[c]

\* The effect on channel c of a send that proceeds.
Sent(c) ==
    IF ready[c]
    THEN /\ ready' = [ready EXCEPT ![c] = FALSE]
         /\ recv' = [recv EXCEPT ![c] = @ + 1]
         /\ buf' = buf
    ELSE /\ buf' = [buf EXCEPT ![c] = @ + 1]
         /\ UNCHANGED <<ready, recv>>

\* A getter's read is partial when a writer sits between the two writes of one
\* applyTheme call that changes both fields.
MidApplyTheme ==
    \E w \in Threads : /\ pc[w] = "applyTheme96"
                       /\ frame[w].old # variant
                       /\ frame[w].theme # theme

\* ------------------------------------------------------------------ SetTheme
CallSetTheme(t) ==
    \E th \in UserThemes :
        /\ Begin(t, "SetTheme", "SetTheme80", [NewFrame(t, "SetTheme") EXCEPT !.theme = th])
        /\ UNCHANGED <<store, propertyLock, changeListeners, noAnimations, chans>>

\* line 80: s.themeSpecified = true
SetTheme80(t) ==
    /\ pc[t] = "SetTheme80"
    /\ themeSpecified' = TRUE
    /\ Goto(t, "SetTheme81")
    /\ UNCHANGED <<theme, variant, schema, propertyLock, changeListeners, noAnimations,
                   chans, frame, ops, pin>>

\* SetTheme passing the zero variant instead of s.variant.
SetTheme81ZeroVariant(t) ==
    /\ pc[t] = "SetTheme81"
    /\ Goto(t, "applyTheme93")
    /\ frame' = [frame EXCEPT ![t].variant = VariantDark]
    /\ UNCHANGED <<store, propertyLock, changeListeners, noAnimations, chans, ops, pin>>

\* line 81: the argument s.variant is read, then applyTheme is entered
SetTheme81(t) ==
    /\ pc[t] = "SetTheme81"
    /\ Goto(t, "applyTheme93")
    /\ frame' = [frame EXCEPT ![t].variant = variant]
    /\ UNCHANGED <<store, propertyLock, changeListeners, noAnimations, chans, ops, pin>>

\* ------------------------------------------------------------------ applyTheme
\* line 93: s.propertyLock.Lock()
applyTheme93(t) ==
    /\ pc[t] = "applyTheme93"
    /\ CanLock
    /\ Lock(t)
    /\ Goto(t, "applyTheme95")
    /\ frame' = [frame EXCEPT ![t].applies = @ + 1]
    /\ UNCHANGED <<store, changeListeners, noAnimations, chans, ops, pin>>

\* line 95: s.variant = variant
applyTheme95(t) ==
    /\ pc[t] = "applyTheme95"
    /\ variant' = frame[t].variant
    /\ Goto(t, "applyTheme96")
    /\ frame' = [frame EXCEPT ![t].old = variant]
    /\ UNCHANGED <<theme, themeSpecified, schema, propertyLock, changeListeners,
                   noAnimations, chans, ops, pin>>

\* applyTheme running s.apply() before it has stored the theme.
applyTheme96NotifyingFirst(t) ==
    /\ pc[t] = "applyTheme96"
    /\ Goto(t, "apply121")
    /\ frame' = [frame EXCEPT ![t].visited = {}, ![t].must = changeListeners]
    /\ UNCHANGED <<store, propertyLock, changeListeners, noAnimations, chans, ops, pin>>

\* line 96: s.theme = theme; line 97 enters apply()
applyTheme96(t) ==
    /\ pc[t] = "applyTheme96"
    /\ theme' = frame[t].theme
    /\ Goto(t, "apply121")
    /\ frame' = [frame EXCEPT ![t].visited = {}, ![t].must = changeListeners]
    /\ pin' = IF frame[t].op = "SetTheme"
              THEN IF \A u \in Threads \ {t} : frame[u].op \notin Mutators
                   THEN frame[t].theme ELSE None
              ELSE pin
    /\ UNCHANGED <<themeSpecified, variant, schema, propertyLock, changeListeners,
                   noAnimations, chans, ops>>

\* ------------------------------------------------------------------ applyVariant
CallApplyVariant(t) ==
    \E v \in Variants :
        /\ Begin(t, "applyVariant", "applyVariant101",
                 [NewFrame(t, "applyVariant") EXCEPT !.variant = v])
        /\ UNCHANGED <<store, propertyLock, changeListeners, noAnimations, chans>>

\* line 101: s.propertyLock.Lock()
applyVariant101(t) ==
    /\ pc[t] = "applyVariant101"
    /\ CanLock
    /\ Lock(t)
    /\ Goto(t, "applyVariant103")
    /\ UNCHANGED <<store, changeListeners, noAnimations, chans, frame, ops, pin>>

\* line 103: s.variant = variant; line 104 enters apply()
applyVariant103(t) ==
    /\ pc[t] = "applyVariant103"
    /\ variant' = frame[t].variant
    /\ Goto(t, "apply121")
    /\ frame' = [frame EXCEPT ![t].visited = {}, ![t].must = changeListeners]
    /\ UNCHANGED <<theme, themeSpecified, schema, propertyLock, changeListeners,
                   noAnimations, chans, ops, pin>>

\* ------------------------------------------------------------------ apply
\* lines 121-129: one iteration of Range.  A key stored before Range began is
\* visited once; a key stored while it runs is visited once or not at all.
\* lines 122-128: the select on one listener.
applySelect(t, c) ==
    /\ pc[t] = "apply121"
    /\ c \in changeListeners \ frame[t].visited
    /\ CanSend(c) \/ SelectHasDefault
    /\ IF CanSend(c)
       THEN Sent(c) /\ pending' = pending                          \* case listener <- s
       ELSE /\ pending' = [pending EXCEPT ![c] = AfterDefault(@)]   \* default: go func
            /\ UNCHANGED <<buf, ready, recv>>
    /\ visits' = [visits EXCEPT ![c] = @ + 1]
    /\ frame' = [frame EXCEPT ![t].visited = @ \cup {c}]
    /\ UNCHANGED <<store, propertyLock, changeListeners, noAnimations, capacity, pc, ops, pin>>

apply121(t) == \E c \in Chans : applySelect(t, c)

\* apply() whose Range callback returns false: Range stops after any iteration.
apply131StoppingEarly(t) ==
    /\ pc[t] = "apply121"
    /\ Goto(t, IF frame[t].op = "fileChanged" THEN "done" ELSE "Unlock")
    /\ frame' = [frame EXCEPT ![t].fanouts = @ + 1]
    /\ UNCHANGED <<store, propertyLock, changeListeners, noAnimations, chans, ops, pin>>

\* lines 130-131: Range is over and apply() returns: to fileChanged, which
\* returns too, or to applyTheme/applyVariant, whose deferred Unlock is next.
apply131(t) ==
    /\ pc[t] = "apply121"
    /\ frame[t].must \subseteq frame[t].visited
    /\ Goto(t, IF frame[t].op = "fileChanged" THEN "done" ELSE "Unlock")
    /\ frame' = [frame EXCEPT ![t].fanouts = @ + 1]
    /\ UNCHANGED <<store, propertyLock, changeListeners, noAnimations, chans, ops, pin>>

\* lines 94, 102, 64: the deferred s.propertyLock.Unlock()
DeferredUnlock(t) ==
    /\ pc[t] = "Unlock"
    /\ Unlock(t)
    /\ Goto(t, "done")
    /\ UNCHANGED <<store, changeListeners, noAnimations, chans, frame, ops, pin>>

\* The call has returned (pc "done"); the caller drops its results and is free
\* to make another call.  An application that previews a theme with OverrideTheme
\* keeps what the store held before, to put it back with its next call.
Return(t) ==
    /\ pc[t] = "done"
    /\ Goto(t, "idle")
    /\ frame' = [frame EXCEPT ![t] =
                    [NoFrame EXCEPT !.undo = IF frame[t].op = "OverrideTheme" /\ frame[t].solo
                                             THEN {frame[t].pre} ELSE {}]]
    /\ UNCHANGED <<store, propertyLock, changeListeners, noAnimations, chans, ops, pin>>

\* ------------------------------------------------------------------ OverrideTheme
CallOverrideTheme(t) ==
    \E th \in UserThemes, name \in ColorNames :
        /\ Begin(t, "OverrideTheme", "OverrideTheme63",
                 [NewFrame(t, "OverrideTheme") EXCEPT !.theme = th, !.color = name])
        /\ UNCHANGED <<store, propertyLock, changeListeners, noAnimations, chans>>

\* line 63: s.propertyLock.Lock()
OverrideTheme63(t) ==
    /\ pc[t] = "OverrideTheme63"
    /\ CanLock
    /\ Lock(t)
    /\ Goto(t, "OverrideTheme65")
    /\ UNCHANGED <<store, changeListeners, noAnimations, chans, frame, ops, pin>>

\* line 65: s.schema.PrimaryColor = name
OverrideTheme65(t) ==
    /\ pc[t] = "OverrideTheme65"
    /\ schema' = [schema EXCEPT !.PrimaryColor = frame[t].color]
    /\ Goto(t, "OverrideTheme66")
    /\ UNCHANGED <<theme, themeSpecified, variant, propertyLock, changeListeners,
                   noAnimations, chans, frame, ops, pin>>

\* OverrideTheme ending in s.apply(), as applyTheme does.
OverrideTheme66Notifying(t) ==
    /\ pc[t] = "OverrideTheme66"
    /\ theme' = frame[t].theme
    /\ Goto(t, "apply121")
    /\ frame' = [frame EXCEPT ![t].visited = {}, ![t].must = changeListeners]
    /\ UNCHANGED <<themeSpecified, variant, schema, propertyLock, changeListeners,
                   noAnimations, chans, ops, pin>>

\* line 66: s.theme = theme
OverrideTheme66(t) ==
    /\ pc[t] = "OverrideTheme66"
    /\ theme' = frame[t].theme
    /\ Goto(t, "Unlock")
    /\ UNCHANGED <<themeSpecified, variant, schema, propertyLock, changeListeners,
                   noAnimations, chans, frame, ops, pin>>

\* ------------------------------------------------------------------ fileChanged
\* fileChanged() without line 134: apply() on the schema as it was.
CallFileChangedUnloaded(t) ==
    /\ Begin(t, "fileChanged", "apply121",
             [NewFrame(t, "fileChanged") EXCEPT !.must = changeListeners])
    /\ UNCHANGED <<store, propertyLock, changeListeners, noAnimations, chans>>

\* line 133: func (s *settings) fileChanged()
CallFileChanged(t) ==
    /\ Begin(t, "fileChanged", "load", NewFrame(t, "fileChanged"))
    /\ UNCHANGED <<store, propertyLock, changeListeners, noAnimations, chans>>

\* line 134: s.load().  load() is not part of the sources; by the specification it
\* replaces the schema by the one the persistence collaborator delivers, as a
\* mutation under the exclusive lock, and resolves no theme.
load(t) ==
    /\ pc[t] = "load"
    /\ CanLock
    /\ Lock(t)
    /\ Goto(t, "loadStore")
    /\ UNCHANGED <<store, changeListeners, noAnimations, chans, frame, ops, pin>>

loadStore(t) ==
    /\ pc[t] = "loadStore"
    /\ Goto(t, "apply121")        \* line 135: s.apply()
    /\ \E sc \in Schemas :
          /\ schema' = sc
          /\ frame' = [frame EXCEPT ![t].visited = {}, ![t].must = changeListeners,
                                    ![t].loaded = {sc}]
    /\ Unlock(t)
    /\ UNCHANGED <<theme, themeSpecified, variant, changeListeners, noAnimations,
                   chans, ops, pin>>

\* ------------------------------------------------------------------ setupTheme
CallSetupTheme(t) ==
    /\ Begin(t, "setupTheme", "setupTheme158", NewFrame(t, "setupTheme"))
    /\ UNCHANGED <<store, propertyLock, changeListeners, noAnimations, chans>>

\* lines 158-163: name from the schema or FYNE_THEME; variant := app.DefaultVariant()
setupTheme158(t) ==
    /\ pc[t] = "setupTheme158"
    /\ Goto(t, "setupTheme164")
    /\ \E env \in EnvValues, dflt \in Variants :
          frame' = [frame EXCEPT ![t].name = CandidateName(schema.ThemeName, env),
                                 ![t].variant = dflt,
                                 ![t].env = env,
                                 ![t].schemaName = schema.ThemeName]
    /\ UNCHANGED <<store, propertyLock, changeListeners, noAnimations, chans, ops, pin>>

\* line 164: effectiveTheme := s.theme
setupTheme164(t) ==
    /\ pc[t] = "setupTheme164"
    /\ Goto(t, "setupTheme165")
    /\ frame' = [frame EXCEPT ![t].theme = theme]
    /\ UNCHANGED <<store, propertyLock, changeListeners, noAnimations, chans, ops, pin>>

\* lines 165-175: the theme to apply, the variant for the name, then applyTheme
setupTheme165(t) ==
    /\ pc[t] = "setupTheme165"
    /\ Goto(t, "applyTheme93")
    /\ \E doc \in IF themeSpecified THEN {None} ELSE ThemeDocs :   \* theme.json, if read
          frame' = [frame EXCEPT ![t].theme = EffectiveTheme(themeSpecified, @, doc),
                                 ![t].doc = doc,
                                 ![t].dflt = frame[t].variant,
                                 ![t].variant = VariantForName(frame[t].name, @)]
    /\ UNCHANGED <<store, propertyLock, changeListeners, noAnimations, chans, ops, pin>>

\* ------------------------------------------------------------------ getters
CallTheme(t) ==
    /\ Begin(t, "Theme", "Theme74", NewFrame(t, "Theme"))
    /\ UNCHANGED <<store, propertyLock, changeListeners, noAnimations, chans>>

CallPrimaryColor(t) ==
    /\ Begin(t, "PrimaryColor", "PrimaryColor53", NewFrame(t, "PrimaryColor"))
    /\ UNCHANGED <<store, propertyLock, changeListeners, noAnimations, chans>>

CallScale(t) ==
    /\ Begin(t, "Scale", "Scale108", NewFrame(t, "Scale"))
    /\ UNCHANGED <<store, propertyLock, changeListeners, noAnimations, chans>>

CallThemeVariant(t) ==
    /\ Begin(t, "ThemeVariant", "ThemeVariant89", NewFrame(t, "ThemeVariant"))
    /\ UNCHANGED <<store, propertyLock, changeListeners, noAnimations, chans>>

CallShowAnimations(t) ==
    /\ Begin(t, "ShowAnimations", "ShowAnimations85", NewFrame(t, "ShowAnimations"))
    /\ UNCHANGED <<store, propertyLock, changeListeners, noAnimations, chans>>

CallBuildType(t) ==
    /\ Begin(t, "BuildType", "BuildType49", NewFrame(t, "BuildType"))
    /\ UNCHANGED <<store, propertyLock, changeListeners, noAnimations, chans>>

\* lines 74, 53, 108: s.propertyLock.RLock()
GetterRLock(t) ==
    /\ pc[t] \in {"Theme74", "PrimaryColor53", "Scale108"}
    /\ CanRLock
    /\ RLock(t)
    /\ Goto(t, CASE pc[t] = "Theme74" -> "Theme76"
                 [] pc[t] = "PrimaryColor53" -> "PrimaryColor55"
                 [] pc[t] = "Scale108" -> "Scale110")
    /\ UNCHANGED <<store, changeListeners, noAnimations, chans, frame, ops, pin>>

\* A getter returns v, computed from the stored value raw: both are kept for the
\* caller, with whether a read of theme or variant fell between the two writes
\* of an applyTheme.
Returns(t, raw, v) ==
    /\ Goto(t, "done")
    /\ frame' = [frame EXCEPT ![t].ret = v, ![t].raw = raw,
                              ![t].partial = frame[t].op \in {"Theme", "ThemeVariant"}
                                             /\ MidApplyTheme]

\* lines 75-76: return s.theme, then the deferred RUnlock
Theme76(t) ==
    /\ pc[t] = "Theme76"
    /\ Returns(t, theme, theme)
    /\ RUnlock(t)
    /\ UNCHANGED <<store, changeListeners, noAnimations, chans, ops, pin>>

\* lines 54-55: return s.schema.PrimaryColor, then the deferred RUnlock
PrimaryColor55(t) ==
    /\ pc[t] = "PrimaryColor55"
    /\ Returns(t, schema.PrimaryColor, schema.PrimaryColor)
    /\ RUnlock(t)
    /\ UNCHANGED <<store, changeListeners, noAnimations, chans, ops, pin>>

\* Scale() storing the normalised scale before it returns it.
Scale110WritingBack(t) ==
    /\ pc[t] = "Scale110"
    /\ Returns(t, schema.Scale, ScaleResult(schema.Scale))
    /\ schema' = [schema EXCEPT !.Scale = ScaleResult(@)]
    /\ RUnlock(t)
    /\ UNCHANGED <<theme, themeSpecified, variant, changeListeners, noAnimations, chans, ops, pin>>

\* lines 109-113: the scale, normalised, then the deferred RUnlock
Scale110(t) ==
    /\ pc[t] = "Scale110"
    /\ Returns(t, schema.Scale, ScaleResult(schema.Scale))
    /\ RUnlock(t)
    /\ UNCHANGED <<store, changeListeners, noAnimations, chans, ops, pin>>

\* line 89: return s.variant
ThemeVariant89(t) ==
    /\ pc[t] = "ThemeVariant89"
    /\ Returns(t, variant, variant)
    /\ UNCHANGED <<store, propertyLock, changeListeners, noAnimations, chans, ops, pin>>

\* line 85: return !s.schema.DisableAnimations && !noAnimations
ShowAnimations85(t) ==
    /\ pc[t] = "ShowAnimations85"
    /\ Returns(t, schema.DisableAnimations,
               ShowAnimationsResult(schema.DisableAnimations, noAnimations))
    /\ UNCHANGED <<store, propertyLock, changeListeners, noAnimations, chans, ops, pin>>

\* line 49: return build.Mode, fixed when the program was built
BuildType49(t) ==
    /\ pc[t] = "BuildType49"
    /\ \E m \in BuildModes : Returns(t, m, m)
    /\ UNCHANGED <<store, propertyLock, changeListeners, noAnimations, chans, ops, pin>>

\* ------------------------------------------------------------------ listeners
\* line 117: s.changeListeners.Store(listener, true), one atomic step of sync.Map
AddChangeListener(c) ==
    /\ changeListeners' = changeListeners \cup {c}
    /\ UNCHANGED <<store, propertyLock, noAnimations, chans, pc, frame, ops, pin>>

\* A send on channel c is coming: apply() has the channel still to visit, or a
\* sender goroutine is waiting on it.  Whether a subscriber blocks in its receive
\* is visible to a send only, so the subscriber is let to block when one is coming.
SendAhead(c) ==
    \/ pending[c] > 0
    \/ \E t \in Threads : pc[t] = "apply121" /\ c \notin frame[t].visited

\* The subscriber of channel c receives: it takes a buffered message, or blocks
\* in the receive until a sender arrives.
SubscriberReceive(c) ==
    /\ c \in changeListeners
    /\ ~ready[c]
    /\ buf[c] > 0 \/ SendAhead(c)
    /\ IF buf[c] > 0
       THEN /\ buf' = [buf EXCEPT ![c] = @ - 1]
            /\ recv' = [recv EXCEPT ![c] = @ + 1]
            /\ ready' = ready
       ELSE /\ ready' = [ready EXCEPT ![c] = TRUE]
            /\ UNCHANGED <<buf, recv>>
    /\ UNCHANGED <<store, propertyLock, changeListeners, noAnimations, capacity,
                   pending, visits, pc, frame, ops, pin>>

\* line 127: a sender goroutine's `l <- s` proceeds and the goroutine ends.
BackgroundSend(c) ==
    /\ pending[c] > 0
    /\ CanSend(c)
    /\ Sent(c)
    /\ pending' = [pending EXCEPT ![c] = @ - 1]
    /\ UNCHANGED <<store, propertyLock, changeListeners, noAnimations, capacity,
                   visits, pc, frame, ops, pin>>

\* ------------------------------------------------------------------ specification
Start(t) ==
    \/ CallSetTheme(t) \/ CallApplyVariant(t) \/ CallOverrideTheme(t)
    \/ CallFileChanged(t) \/ CallSetupTheme(t)
    \/ CallTheme(t) \/ CallPrimaryColor(t) \/ CallScale(t)
    \/ CallThemeVariant(t) \/ CallShowAnimations(t) \/ CallBuildType(t)

Continue(t) ==
    \/ SetTheme80(t) \/ SetTheme81(t)
    \/ applyTheme93(t) \/ applyTheme95(t) \/ applyTheme96(t)
    \/ applyVariant101(t) \/ applyVariant103(t)
    \/ apply121(t) \/ apply131(t) \/ DeferredUnlock(t) \/ Return(t)
    \/ OverrideTheme63(t) \/ OverrideTheme65(t) \/ OverrideTheme66(t)
    \/ load(t) \/ loadStore(t)
    \/ setupTheme158(t) \/ setupTheme164(t) \/ setupTheme165(t)
    \/ GetterRLock(t) \/ Theme76(t) \/ PrimaryColor55(t) \/ Scale110(t)
    \/ ThemeVariant89(t) \/ ShowAnimations85(t) \/ BuildType49(t)

Next ==
    \/ \E t \in Threads : Start(t) \/ Continue(t)
    \/ \E c \in Chans : AddChangeListener(c) \/ SubscriberReceive(c) \/ BackgroundSend(c)

Spec == Init /\ [][Next]_vars

\* The store alone: two goroutines call its methods and nobody has registered a
\* listener, so that apply() has no channel to visit.  The channels never act on
\* the store, which behaves here as it does with them.
StoreStep(t) ==
    \/ SetTheme80(t) \/ SetTheme81(t)
    \/ applyTheme93(t) \/ applyTheme95(t) \/ applyTheme96(t)
    \/ applyVariant101(t) \/ applyVariant103(t)
    \/ apply131(t) \/ DeferredUnlock(t) \/ Return(t)
    \/ OverrideTheme63(t) \/ OverrideTheme65(t) \/ OverrideTheme66(t)
    \/ load(t) \/ loadStore(t)
    \/ setupTheme158(t) \/ setupTheme164(t) \/ setupTheme165(t)
    \/ GetterRLock(t) \/ Theme76(t) \/ PrimaryColor55(t) \/ Scale110(t)
    \/ ThemeVariant89(t) \/ ShowAnimations85(t) \/ BuildType49(t)

StoreNext == \E t \in Threads : Start(t) \/ StoreStep(t)

StoreSpec == Init /\ [][StoreNext]_vars

\* The fan-out: one goroutine makes the calls that notify, one after the other,
\* while listeners register, subscribers receive and sender goroutines run.
FanoutCall(t) == CallSetTheme(t) \/ CallApplyVariant(t) \/ CallFileChanged(t)

FanoutStep(t) ==
    \/ SetTheme80(t) \/ SetTheme81(t)
    \/ applyTheme93(t) \/ applyTheme95(t) \/ applyTheme96(t)
    \/ applyVariant101(t) \/ applyVariant103(t)
    \/ load(t) \/ loadStore(t)
    \/ apply121(t) \/ apply131(t) \/ DeferredUnlock(t) \/ Return(t)

FanoutNext ==
    \/ FanoutCall("g1") \/ FanoutStep("g1")
    \/ \E c \in Chans : AddChangeListener(c) \/ SubscriberReceive(c) \/ BackgroundSend(c)

FanoutInit == Fresh(MaxFanouts)

FanoutSpec == FanoutInit /\ [][FanoutNext]_vars

\* The preview: one goroutine sets themes and overrides them, one call after the
\* other, while listeners register, subscribers receive and sender goroutines run.
PreviewCall(t) == CallSetTheme(t) \/ CallOverrideTheme(t)

PreviewStep(t) ==
    \/ SetTheme80(t) \/ SetTheme81(t)
    \/ applyTheme93(t) \/ applyTheme95(t) \/ applyTheme96(t)
    \/ OverrideTheme63(t) \/ OverrideTheme65(t) \/ OverrideTheme66(t)
    \/ apply121(t) \/ apply131(t) \/ DeferredUnlock(t) \/ Return(t)

PreviewNext ==
    \/ PreviewCall("g1") \/ PreviewStep("g1")
    \/ \E c \in Chans : AddChangeListener(c) \/ SubscriberReceive(c) \/ BackgroundSend(c)

PreviewSpec == FanoutInit /\ [][PreviewNext]_vars

\* The readers: one goroutine calls the getters and, for notifications to be in
\* flight around them, applyVariant, one call after the other, while listeners
\* register, subscribers receive and sender goroutines run.
ReaderCall(t) ==
    \/ CallTheme(t) \/ CallPrimaryColor(t) \/ CallScale(t)
    \/ CallThemeVariant(t) \/ CallShowAnimations(t) \/ CallBuildType(t)
    \/ CallApplyVariant(t)

ReaderStep(t) ==
    \/ GetterRLock(t) \/ Theme76(t) \/ PrimaryColor55(t) \/ Scale110(t)
    \/ ThemeVariant89(t) \/ ShowAnimations85(t) \/ BuildType49(t)
    \/ applyVariant101(t) \/ applyVariant103(t)
    \/ apply121(t) \/ apply131(t) \/ DeferredUnlock(t) \/ Return(t)

ReaderNext ==
    \/ ReaderCall("g1") \/ ReaderStep("g1")
    \/ \E c \in Chans : AddChangeListener(c) \/ SubscriberReceive(c) \/ BackgroundSend(c)

ReaderSpec == FanoutInit /\ [][ReaderNext]_vars

\* The store of a build with animations, loaded from an absent settings file.
LiveInit == Fresh(MaxLive) /\ ~noAnimations /\ schema.ThemeName = ""

\* The fan-out with a scheduler that keeps running the calling goroutine; the
\* subscribers are free never to receive.
ProducerSpec ==
    /\ LiveInit
    /\ [][FanoutNext]_vars
    /\ WF_vars(FanoutStep("g1"))

\* The fan-out where, besides, every subscriber keeps receiving and every sender
\* goroutine keeps being scheduled.
DeliverySpec ==
    /\ LiveInit
    /\ [][FanoutNext]_vars
    /\ WF_vars(FanoutStep("g1"))
    /\ \A c \in Chans : WF_vars(SubscriberReceive(c)) /\ WF_vars(BackgroundSend(c))

\* The contention: two goroutines call the methods that take the lock, the writers
\* that fan out under it and the read-locked getters, as subscribers do when a
\* notification reaches them, while listeners register, subscribers receive or
\* do not, and sender goroutines run.  The scheduler keeps running each calling
\* goroutine that can take a step; nothing makes a subscriber receive.
ContentionCall(t) ==
    \/ CallSetTheme(t) \/ CallApplyVariant(t)
    \/ CallTheme(t) \/ CallPrimaryColor(t) \/ CallScale(t)

ContentionStep(t) ==
    \/ SetTheme80(t) \/ SetTheme81(t)
    \/ applyTheme93(t) \/ applyTheme95(t) \/ applyTheme96(t)
    \/ applyVariant101(t) \/ applyVariant103(t)
    \/ apply121(t) \/ apply131(t) \/ DeferredUnlock(t) \/ Return(t)
    \/ GetterRLock(t) \/ Theme76(t) \/ PrimaryColor55(t) \/ Scale110(t)

\* The one channel of the contention: the unbuffered one, on which a send finds
\* nobody unless the subscriber is blocked in its receive.
Contended == {c \in Chans : ChanCap[c] = 0}

ContentionNext ==
    \/ \E t \in Threads : ContentionCall(t) \/ ContentionStep(t)
    \/ \E c \in Contended : AddChangeListener(c) \/ SubscriberReceive(c) \/ BackgroundSend(c)

ContentionSpec ==
    /\ LiveInit
    /\ [][ContentionNext]_vars
    /\ \A t \in Threads : WF_vars(ContentionStep(t))

\* The notified reader: two goroutines call SetTheme and Theme, the one as the
\* application and the other as a subscriber may after a notification, while
\* listeners register, subscribers receive and sender goroutines run.
NotifiedCall(t) == CallSetTheme(t) \/ CallTheme(t)

NotifiedStep(t) ==
    \/ SetTheme80(t) \/ SetTheme81(t)
    \/ applyTheme93(t) \/ applyTheme95(t) \/ applyTheme96(t)
    \/ apply121(t) \/ apply131(t) \/ DeferredUnlock(t) \/ Return(t)
    \/ GetterRLock(t) \/ Theme76(t)

NotifiedNext ==
    \/ \E t \in Threads : NotifiedCall(t) \/ NotifiedStep(t)
    \/ \E c \in Chans : AddChangeListener(c) \/ SubscriberReceive(c) \/ BackgroundSend(c)

NotifiedSpec == LiveInit /\ [][NotifiedNext]_vars
\* ================================================================== claims
InFlight(t) == frame[t].op # None
Done(t, op) == pc[t] = "done" /\ frame[t].op = op

\* The goroutine has written what its applyTheme writes and nobody has written
\* since: it still holds the lock, or it has returned from a call made alone.
Applied(t) ==
    \/ pc[t] \in {"apply121", "Unlock"}
    \/ pc[t] = "done" /\ frame[t].solo

\* C1: every run of apply() ends: a goroutine inside apply() leaves it, with
\* subscribers that receive late or never, on unbuffered and on full channels.
C1_ApplyCompletes ==
    \A t \in Threads : (pc[t] = "apply121") ~> (pc[t] # "apply121")

C1_Witness ==
    \E t \in Threads : /\ pc[t] = "done" /\ frame[t].must = Chans
                       /\ \A c \in Chans : pending[c] > 0 /\ ~ready[c] /\ recv[c] = 0
                       /\ pending["c1"] = 2

\* C2: a listener registered before apply() began is sent that notification, and
\* the subscriber receives it: the messages a subscriber has received catch up
\* with the notifications owed to its channel, also those that found the channel
\* unable to take the send.
Owed(c) ==
    visits[c] + Cardinality({t \in Threads : pc[t] = "apply121"
                                             /\ c \in frame[t].must \ frame[t].visited})

C2_EveryNotificationReceived ==
    \A c \in Chans : \A k \in 1..MaxLive : (Owed(c) >= k) ~> (recv[c] >= k)

C2_Witness ==
    \E c \in Chans : /\ capacity[c] = 0 /\ visits[c] = 2
                     /\ recv[c] = 1 /\ pending[c] = 1 /\ ready[c]

\* C3: after SetTheme(T), with no SetTheme or OverrideTheme begun since and none
\* of SetTheme, OverrideTheme, setupTheme under way when T was written, the
\* theme is T and Theme() returns T whatever fileChanged() and setupTheme() calls
\* follow; and themeSpecified, once true at the start of a call, is still true.
C3_ThemeSticks ==
    /\ pin # None => theme = pin /\ themeSpecified
    /\ \A t \in Threads :
          /\ Done(t, "Theme") /\ frame[t].pinned # None => frame[t].ret = frame[t].pinned
          /\ InFlight(t) /\ frame[t].pre.themeSpecified => themeSpecified

C3_Witness ==
    \E t \in Threads : /\ Done(t, "setupTheme")
                       /\ frame[t].pinned \in UserThemes
                       /\ pin = frame[t].pinned
                       /\ frame[t].applies = 1

\* C4 as claimed: Scale() returns 1.0 for every stored value <= 0 and the stored
\* value otherwise, so that every result is > 0.
C4_ScaleAsClaimed ==
    \A t \in Threads : Done(t, "Scale") =>
        /\ frame[t].raw <= 0 => frame[t].ret = ScaleOne
        /\ frame[t].raw > 0 => frame[t].ret = frame[t].raw
        /\ frame[t].ret > 0

\* C4 as amended: Scale() returns 1.0 for every stored value < 0 and the stored
\* value, zero included, otherwise, so that every result is >= 0.
C4_ScaleNormalized ==
    \A t \in Threads : Done(t, "Scale") =>
        /\ frame[t].raw < 0 => frame[t].ret = ScaleOne
        /\ frame[t].raw >= 0 => frame[t].ret = frame[t].raw
        /\ frame[t].ret >= 0

C4_Witness ==
    \E t \in Threads : Done(t, "Scale") /\ frame[t].raw = 0 /\ frame[t].ret = 0

\* C5 as claimed: no getter returns a field of an applyTheme call that has written
\* one of its two fields and not yet the other.
C5_NoTornRead ==
    \A t \in Threads : pc[t] = "done" => ~frame[t].partial

\* C6 as claimed, in its last clause: whenever a goroutine is about to write a
\* field, every other goroutine about to read or write that field holds the
\* lock, and so does the writer.  FieldAt gives the field the step at a position
\* of Theme, ThemeVariant, PrimaryColor, Scale, ShowAnimations, SetTheme,
\* OverrideTheme, applyTheme, applyVariant or fileChanged reads or writes.
WritesAt == {"SetTheme80", "applyTheme95", "applyTheme96", "applyVariant103",
             "OverrideTheme65", "OverrideTheme66", "loadStore"}

FieldAt(p) ==
    CASE p \in {"Theme76", "applyTheme96", "OverrideTheme66"} -> "theme"
      [] p \in {"ThemeVariant89", "SetTheme81", "applyTheme95", "applyVariant103"} -> "variant"
      [] p \in {"PrimaryColor55", "Scale110", "ShowAnimations85", "OverrideTheme65",
                "loadStore"} -> "schema"
      [] p = "SetTheme80" -> "themeSpecified"
      [] OTHER -> None

HoldsLock(t) == propertyLock.w = t \/ t \in propertyLock.r

C6_LockDiscipline ==
    \A w, t \in Threads :
        w # t /\ pc[w] \in WritesAt /\ FieldAt(pc[t]) = FieldAt(pc[w]) =>
            propertyLock.w = w /\ HoldsLock(t)

\* C7 as claimed: while apply() has a listener still to send to on behalf of
\* applyTheme or applyVariant, the sending goroutine does not hold propertyLock.
UnderApplyTheme(t) == frame[t].op \in {"SetTheme", "setupTheme", "applyVariant"}
Sending(t) == pc[t] = "apply121" /\ changeListeners \ frame[t].visited # {}

C7_NoLockWhileSending ==
    \A t \in Threads : Sending(t) /\ UnderApplyTheme(t) => propertyLock.w # t

\* C7 as amended: propertyLock is never held across a send that waits.  apply()
\* sends under the exclusive lock on behalf of applyTheme and applyVariant (and
\* without it on behalf of fileChanged), and each of those sends proceeds at once,
\* whatever the channel's state; the goroutine leaves apply() holding the lock
\* still, for the deferred Unlock.
C7_LockOnlyAcrossNonBlockingSend ==
    \A t \in Threads :
        /\ Sending(t) =>
              /\ UnderApplyTheme(t) <=> propertyLock.w = t
              /\ \A c \in changeListeners \ frame[t].visited : ENABLED applySelect(t, c)
        /\ pc[t] = "Unlock" => propertyLock.w = t

C7_Witness ==
    \E t \in Threads, c \in Chans :
        /\ pc[t] = "apply121" /\ propertyLock.w = t
        /\ c \in frame[t].visited /\ pending[c] > 0
        /\ changeListeners \ frame[t].visited # {}

\* C8: when setupTheme() has applied its result, the variant is Light if the
\* candidate name (FYNE_THEME if non-empty, else the schema's ThemeName) is
\* "light", Dark if it is "dark", and the platform default otherwise.
C8_Expected(env, schemaName, dflt) ==
    LET cand == IF env = "" THEN schemaName ELSE env
    IN  IF cand = "light" THEN VariantLight
        ELSE IF cand = "dark" THEN VariantDark
        ELSE dflt

C8_VariantResolution ==
    \A t \in Threads : frame[t].op = "setupTheme" /\ Applied(t) =>
        variant = C8_Expected(frame[t].env, frame[t].schemaName, frame[t].dflt)

C8_Witness ==
    \E t \in Threads : /\ Done(t, "setupTheme") /\ frame[t].solo
                       /\ frame[t].env = "dark" /\ frame[t].schemaName = "light"
                       /\ frame[t].dflt = VariantLight
                       /\ frame[t].pre.variant = VariantLight
                       /\ variant = VariantDark

\* C9: when setupTheme() found themeSpecified false, it applies the default theme
\* if theme.json is absent, unreadable, without content or malformed, and the
\* parsed theme if it is valid; it returns nothing, after one applyTheme.
C9_DegradesToDefault ==
    \A t \in Threads : frame[t].op = "setupTheme" =>
        /\ frame[t].doc \in ThemeDocs /\ Applied(t) =>
              theme = IF frame[t].doc = "valid" THEN JSONTheme ELSE DefaultTheme
        /\ pc[t] = "done" => frame[t].applies = 1 /\ frame[t].ret = None

C9_Witness ==
    \E t \in Threads : /\ Done(t, "setupTheme") /\ frame[t].solo
                       /\ frame[t].doc = "malformed"
                       /\ frame[t].pre.theme = JSONTheme
                       /\ theme = DefaultTheme

\* C10: SetTheme(t) made alone leaves themeSpecified true, theme t, variant and
\* schema as they were, and has run one fan-out, which visited every listener
\* registered when it began.
C10_SetThemeFrame ==
    \A t \in Threads : Done(t, "SetTheme") /\ frame[t].solo =>
        /\ themeSpecified
        /\ theme = frame[t].theme
        /\ variant = frame[t].pre.variant
        /\ schema = frame[t].pre.schema
        /\ frame[t].fanouts = 1
        /\ frame[t].must \subseteq frame[t].visited

C10_Witness ==
    \E t \in Threads : /\ Done(t, "SetTheme") /\ frame[t].solo
                       /\ frame[t].pre.themeSpecified
                       /\ frame[t].pre.theme # theme
                       /\ frame[t].pre.variant = VariantLight
                       /\ frame[t].must = Chans

\* C11: OverrideTheme(t, name) made alone stores t as the theme and name as the
\* primary color and nothing else: the variant, themeSpecified and the other schema
\* fields are as before, apply() was not run and no send was attempted on any
\* channel, directly or by a sender goroutine.  A second OverrideTheme with the
\* theme and color name held before the first restores the store held before it.
C11_OverrideThemeFrame ==
    \A t \in Threads :
        Done(t, "OverrideTheme") /\ frame[t].solo =>
            /\ theme = frame[t].theme
            /\ schema = [frame[t].pre.schema EXCEPT !.PrimaryColor = frame[t].color]
            /\ variant = frame[t].pre.variant
            /\ themeSpecified = frame[t].pre.themeSpecified
            /\ visits = frame[t].pre.visits
            /\ frame[t].fanouts = 0 /\ frame[t].visited = {}
            /\ propertyLock.w # t
            /\ \A held \in frame[t].undo :
                  /\ frame[t].theme = held.theme
                  /\ frame[t].color = held.schema.PrimaryColor
                  => /\ theme = held.theme
                     /\ schema = held.schema
                     /\ variant = held.variant
                     /\ themeSpecified = held.themeSpecified

\* SetTheme(T), a preview of another theme and color, and the call that puts T and
\* the color back, with both subscribers registered and notified of the SetTheme.
C11_Witness ==
    \E t \in Threads :
        /\ Done(t, "OverrideTheme") /\ frame[t].solo
        /\ \E held \in frame[t].undo :
              /\ frame[t].theme = held.theme
              /\ frame[t].color = held.schema.PrimaryColor
              /\ frame[t].pre.theme # held.theme
              /\ frame[t].pre.schema.PrimaryColor # held.schema.PrimaryColor
        /\ themeSpecified
        /\ changeListeners = Chans
        /\ \A c \in Chans : visits[c] = 1

C13_ShowAnimations ==
    \A t \in Threads :
        /\ InFlight(t) => noAnimations = frame[t].pre.noAnimations
        /\ Done(t, "ShowAnimations") =>
              /\ frame[t].ret \in BOOLEAN
              /\ frame[t].ret = FALSE <=> (frame[t].raw = TRUE \/ noAnimations = TRUE)
              /\ frame[t].solo => frame[t].raw = schema.DisableAnimations

\* The schema allows animations and the build does not: ShowAnimations() is false,
\* after a mutator has run on the store.
C13_Witness ==
    \E t \in Threads :
        /\ Done(t, "ShowAnimations")
        /\ noAnimations /\ ~schema.DisableAnimations
        /\ frame[t].raw = FALSE /\ frame[t].ret = FALSE
        /\ theme \in UserThemes

Getters == {"PrimaryColor", "Theme", "Scale", "ShowAnimations", "ThemeVariant", "BuildType"}

\* The goroutine t takes a step of a getter: it enters it, or moves on within it.
GetterStep(t) ==
    /\ pc'[t] # pc[t]
    /\ frame[t].op \in Getters \/ frame'[t].op \in Getters

\* C14: no step of PrimaryColor, Theme, Scale, ShowAnimations, ThemeVariant or
\* BuildType changes theme, variant, themeSpecified, the schema or the set of
\* registered channels, and none sends on a channel or starts a sender goroutine;
\* when Scale() has returned 1.0 for a negative schema.Scale, made alone, the
\* stored value is still the negative one.
C14_GettersFrame ==
    /\ [][\A t \in Threads :
            GetterStep(t) => UNCHANGED <<store, changeListeners, noAnimations, chans>>]_vars
    /\ [](\A t \in Threads :
            Done(t, "Scale") /\ frame[t].solo => schema.Scale = frame[t].raw)

\* Scale() has returned 1.0 for the stored -1.0, which is still stored, while a
\* sender goroutine of an earlier applyVariant waits on a registered channel.
C14_Witness ==
    \E t \in Threads :
        /\ Done(t, "Scale") /\ frame[t].solo
        /\ frame[t].raw < 0 /\ frame[t].ret = ScaleOne
        /\ schema.Scale = frame[t].raw
        /\ changeListeners = Chans
        /\ \E c \in Chans : pending[c] > 0

Max(a, b) == IF a >= b THEN a ELSE b

\* The subscriber of channel c has never entered a receive.
NeverReceiving(c) == recv[c] = 0 /\ ~ready[c]

\* C15: on every channel the messages received, the messages in the buffer and the
\* sender goroutines still waiting add up to the send attempts apply() has made on
\* it, and the buffer holds no more than its capacity.  While the subscriber of a
\* channel of capacity n has never received, k attempts leave max(0, k - n) sender
\* goroutines, none of which can proceed.
C15_MessageAccounting ==
    \A c \in Chans :
        /\ recv[c] + buf[c] + pending[c] = visits[c]
        /\ buf[c] <= capacity[c]
        /\ NeverReceiving(c) =>
              /\ pending[c] = Max(0, visits[c] - capacity[c])
              /\ ~ENABLED BackgroundSend(c)

\* Three fan-outs on the buffered channel whose subscriber never receives: one
\* message is in the buffer and two sender goroutines wait; on the unbuffered
\* channel, whose subscriber received once, a sender goroutine waits too.
C15_Witness ==
    /\ NeverReceiving("c2")
    /\ visits["c2"] = MaxFanouts /\ capacity["c2"] = MaxCap
    /\ buf["c2"] = MaxCap /\ pending["c2"] = MaxFanouts - MaxCap
    /\ recv["c1"] = 1 /\ pending["c1"] > 0

Notifiers == {"SetTheme", "setupTheme", "applyVariant", "fileChanged"}

\* apply() of the call of t has returned.
ApplyOver(t) == pc[t] \in {"Unlock", "done"} /\ frame[t].fanouts = 1

\* C16: the registry only grows, and holds a channel once however often it is
\* registered.  A call that runs apply() makes one send attempt on each channel
\* it visited and none on any other; it visits registered channels only; when its
\* apply() has returned it has visited every channel registered when apply()
\* began, and a channel registered later is visited once or not at all.
C16_Registry ==
    /\ [][changeListeners \subseteq changeListeners']_vars
    /\ [](\A t \in Threads :
            frame[t].op \in Notifiers /\ frame[t].solo =>
                /\ frame[t].pre.changeListeners \subseteq changeListeners
                /\ frame[t].must \subseteq changeListeners
                /\ frame[t].visited \subseteq changeListeners
                /\ \A c \in Chans :
                      visits[c] = frame[t].pre.visits[c]
                                    + (IF c \in frame[t].visited THEN 1 ELSE 0)
                /\ ApplyOver(t) => frame[t].must \subseteq frame[t].visited)

\* A channel registered while apply() was running has been visited by it, as has
\* the channel registered before: one send attempt was made on each.
C16_Witness ==
    \E t \in Threads :
        /\ frame[t].op \in Notifiers /\ ApplyOver(t)
        /\ frame[t].must = {"c1"}
        /\ frame[t].visited = Chans
        /\ \A c \in Chans : visits[c] = 1

\* C17: when a SetTheme call and a call that stores a variant v (applyVariant(v),
\* or setupTheme resolving v) have both returned, whatever their interleaving,
\* the stored variant is v.
C17_NoLostVariantUpdate ==
    \A s \in Threads, a \in Threads :
        /\ Done(s, "SetTheme")
        /\ Done(a, "applyVariant") \/ Done(a, "setupTheme")
        => variant = frame[a].variant

\* The goroutine is at a Lock() or RLock() it has not passed.
WaitsForLock(t) ==
    pc[t] \in {"applyTheme93", "applyVariant101", "OverrideTheme63", "load",
               "Theme74", "PrimaryColor53", "Scale108"}

\* C18: whatever the interleaving of writers, getters, sender goroutines and
\* subscribers, and whether or not any subscriber ever receives, a goroutine that
\* holds propertyLock releases it, a goroutine that asks for it gets it, and
\* every call returns: nothing but a sender goroutine waits for ever.
C18_LockProgress ==
    \A t \in Threads :
        /\ HoldsLock(t) ~> ~HoldsLock(t)
        /\ WaitsForLock(t) ~> HoldsLock(t)
        /\ InFlight(t) ~> pc[t] = "done"

\* A writer has run its fan-out under the lock and left a sender goroutine on the
\* channel of a subscriber that has never received; it still holds the lock, for
\* which the other goroutine waits.
C18_Witness ==
    \E t \in Threads, u \in Threads :
        /\ t # u
        /\ propertyLock.w = t /\ pc[t] = "Unlock"
        /\ frame[t].visited # {}
        /\ WaitsForLock(u)
        /\ \E c \in Contended : pending[c] > 0 /\ NeverReceiving(c)

\* C19: a notification is the store itself, read when the subscriber asks.  Every
\* send attempt of an applyTheme(T, V) call is made with T already stored, and T
\* stays stored while the call holds the lock; Theme() returns the theme stored
\* at the time of its read; and where SetTheme is the only source of
\* notifications, a Theme() call begun after a notification was received never
\* returns the theme the store held before the first SetTheme.
C19_NeverStale ==
    /\ [](\A t \in Threads :
            /\ frame[t].op \in {"SetTheme", "setupTheme"}
            /\ pc[t] \in {"apply121", "Unlock"}
            => propertyLock.w = t /\ theme = frame[t].theme)
    /\ [][\A t \in Threads :
            pc[t] = "Theme76" /\ pc'[t] = "done" => frame'[t].ret = theme]_vars
    /\ [](\A t \in Threads :
            Done(t, "Theme") /\ frame[t].notified => frame[t].ret \in UserThemes)

\* A subscriber has received the notification of SetTheme(T) while the call was
\* still in its fan-out; Theme(), called after that, has waited for the lock and
\* returned T.
C19_Witness ==
    \E t \in Threads, u \in Threads :
        /\ Done(t, "Theme") /\ frame[t].notified /\ ~frame[t].solo
        /\ Done(u, "SetTheme") /\ frame[u].pre.theme = NilTheme
        /\ frame[t].ret = frame[u].theme
====
